---- MODULE Spec2Model ----
(***************************************************************************)
(* A model of signaller.py: a process that installs one shared handler for *)
(* six fatal-by-default signals, logs every signal to two sinks (standard  *)
(* error and signaller.log), continues on the signals named in its         *)
(* arguments and exits with status 1 on the others, while a main loop      *)
(* emits a heartbeat line and sleeps.                                      *)
(*                                                                         *)
(* Control state is a call stack of frames; the frame on top runs.  A      *)
(* frame's pc is the number of the source line it executes next.           *)
(* Signal delivery is the environment's action: it acts by the signal's    *)
(* current disposition, and for a Python-level handler it pushes the       *)
(* handler's frame on top of whatever was running (signal.signal handlers  *)
(* run on the main thread between two statements, and nest).               *)
(***************************************************************************)
EXTENDS Integers, Sequences, FiniteSets, TLC

(***************************************************************************)
(* Bounds of the model.                                                    *)
(***************************************************************************)
MaxParseArgs == 3   \* argument tokens after argv[0] in specification ParseSpec
MaxSignals == 2     \* signals the environment delivers in one run
MaxClock == 1       \* completed one-second sleeps after which the loop is cut

(***************************************************************************)
(* Signal numbers (Linux), as signal.SIGxxx evaluates.                     *)
(***************************************************************************)
SIGHUP == 1
SIGINT == 2
SIGQUIT == 3
SIGABRT == 6
SIGUSR1 == 10
SIGPIPE == 13
SIGTERM == 15

fatal_sigs == <<SIGINT, SIGTERM, SIGQUIT, SIGHUP, SIGPIPE, SIGABRT>>

Range(s) == {s[k] : k \in DOMAIN s}

FatalSet == Range(fatal_sigs)

\* The signals the environment sends: the six, and one that never gets the handler.
AllSignals == FatalSet \cup {SIGUSR1}

(***************************************************************************)
(* Strings are sequences of one-character strings, so that str.upper() and *)
(* the name lookup are computed and not assumed.                           *)
(***************************************************************************)
LowerAlpha == <<"a","b","c","d","e","f","g","h","i","j","k","l","m",
                "n","o","p","q","r","s","t","u","v","w","x","y","z">>
UpperAlpha == <<"A","B","C","D","E","F","G","H","I","J","K","L","M",
                "N","O","P","Q","R","S","T","U","V","W","X","Y","Z">>

UpperChar(c) ==
    IF \E k \in DOMAIN LowerAlpha : LowerAlpha[k] = c
    THEN UpperAlpha[CHOOSE k \in DOMAIN LowerAlpha : LowerAlpha[k] = c]
    ELSE c

\* A lookup that forgets to upper-case.
upper_Identity(str) == str

\* str.upper()
upper(str) == [k \in DOMAIN str |-> UpperChar(str[k])]

\* The member names of the enum signal.Signals that the model's tokens can hit.
SignalNames ==
    { <<"S","I","G","H","U","P">>, <<"S","I","G","I","N","T">>,
      <<"S","I","G","Q","U","I","T">>, <<"S","I","G","A","B","R","T">>,
      <<"S","I","G","U","S","R","1">>, <<"S","I","G","P","I","P","E">>,
      <<"S","I","G","T","E","R","M">> }

\* signal.Signals[name] for a name that is a member; the lookup is by exact name.
Signals(name) ==
    CASE name = <<"S","I","G","H","U","P">> -> SIGHUP
      [] name = <<"S","I","G","I","N","T">> -> SIGINT
      [] name = <<"S","I","G","Q","U","I","T">> -> SIGQUIT
      [] name = <<"S","I","G","A","B","R","T">> -> SIGABRT
      [] name = <<"S","I","G","U","S","R","1">> -> SIGUSR1
      [] name = <<"S","I","G","P","I","P","E">> -> SIGPIPE
      [] name = <<"S","I","G","T","E","R","M">> -> SIGTERM

\* signal.Signals[name] raises KeyError
IsKeyError(name) == name \notin SignalNames

EmptyStr == <<>>

\* A filter that also skips the names it does not know, instead of failing.
FilterNonEmpty_DropUnknown(lst) ==
    SelectSeq(lst, LAMBDA tok : tok # EmptyStr /\ ~IsKeyError(upper(tok)))

\* [ ... for signame in lst if signame != "" ]: the filter of the comprehension
RECURSIVE FilterNonEmpty(_)
FilterNonEmpty(lst) ==
    IF lst = <<>> THEN <<>>
    ELSE IF Head(lst) # EmptyStr
         THEN <<Head(lst)>> \o FilterNonEmpty(Tail(lst))
         ELSE FilterNonEmpty(Tail(lst))

\* A default that names the wrong signal.
ContinueArgsList_DefaultTerm(a) ==
    IF a = <<>> THEN << <<"S","I","G","T","E","R","M">> >> ELSE a

\* lines 30-33: args[1:], replaced by ['SIGINT'] when it is an empty list
ContinueArgsList(a) ==
    IF a = <<>> THEN << <<"S","I","G","I","N","T">> >> ELSE a

\* line 34 raises KeyError: some token that passes the filter is no member name
ConfigRaises(a) ==
    \E k \in DOMAIN FilterNonEmpty(ContinueArgsList(a)) :
        IsKeyError(upper(FilterNonEmpty(ContinueArgsList(a))[k]))

\* line 34: the list comprehension (a list, in argument order)
ContinueOnSigs(a) ==
    LET kept == FilterNonEmpty(ContinueArgsList(a))
    IN  [k \in DOMAIN kept |-> Signals(upper(kept[k]))]


(***************************************************************************)
(* Argument tokens.                                                        *)
(***************************************************************************)
\* Tokens of specification ParseSpec: valid names in several letter cases, the
\* empty string, a name without its prefix and a stranger.
ParseTokens ==
    { EmptyStr, <<"s","i","g","i","n","t">>, <<"S","I","G","I","N","T">>,
      <<"S","I","G","T","E","R","M">>, <<"S","i","g","T","e","r","m">>,
      <<"s","i","g","u","s","r","1">>, <<"i","n","t">>,
      <<"n","o","t","a","s","i","g","n","a","l">> }

\* The argument lists of specification Spec: none, [""], ["SIGTERM"],
\* ["sigint", "SIGTERM"], ["sigusr1"], ["int"], ["SIGTERM", "", "notasignal"].
ArgChoices ==
    { <<>>,
      << EmptyStr >>,
      << <<"S","I","G","T","E","R","M">> >>,
      << <<"s","i","g","i","n","t">>, <<"S","I","G","T","E","R","M">> >>,
      << <<"s","i","g","u","s","r","1">> >>,
      << <<"i","n","t">> >>,
      << <<"S","I","G","T","E","R","M">>, EmptyStr,
         <<"n","o","t","a","s","i","g","n","a","l">> >> }

\* All lists of at most n tokens of T: the values of sys.argv[1:].
ArgLists(T, n) == UNION { [1..m -> T] : m \in 0..n }

(***************************************************************************)
(* The two sinks of print_msg, in the order of its tuple (line 14).        *)
(***************************************************************************)
StdErr == 1
LogFile == 2

\* The log file written before standard error.
Sinks_Reversed == <<LogFile, StdErr>>

Sinks == <<StdErr, LogFile>>

\* sys.stderr is line-buffered (Python 3.9 on): a write that ends a line goes
\* out at once.  signaller_log = open(..., "w") is block-buffered: a write
\* stays in the buffer until a flush.
LineBuffering(f) == f = StdErr

\* Log lines.  Every line has the same fields so that lines compare.
Line(kind, sig, t, sigs) == [kind |-> kind, sig |-> sig, t |-> t, sigs |-> sigs]
ContinueLine(sigs) == Line("continue on sigs", 0, 0, sigs)
PidLine == Line("my pid is", 0, 0, <<>>)
TickLine(t) == Line("tick", 0, t, <<>>)
CalledLine(sig, t) == Line("signal handler called with signal", sig, t, <<>>)
ExitingLine(sig) == Line("exiting on", sig, 0, <<>>)
TracebackLine(exc) == Line(exc, 0, 0, <<>>)

(***************************************************************************)
(* State.                                                                  *)
(***************************************************************************)
VARIABLES
    args,              \* sys.argv[1:]
    continue_on_sigs,  \* the global list of line 11
    handlers,          \* signal -> its disposition in the process
    stack,             \* call stack, main's frame first, running frame last
    out,               \* sink -> lines that have left the process
    buf,               \* sink -> lines written and not yet flushed
    clock,             \* time.time(), in whole sleeps
    sent,              \* history: signals delivered, with the disposition met
    proc               \* running, or how the process ended

vars == <<args, continue_on_sigs, handlers, stack, out, buf, clock, sent, proc>>

Frame(fn, pc, i, signum, msg) ==
    [fn |-> fn, pc |-> pc, i |-> i, signum |-> signum, msg |-> msg]

NoLine == Line("", 0, 0, <<>>)

Running == [state |-> "running", code |-> 0, cause |-> "", sig |-> 0]
Exited(code, cause, sig) == [state |-> "exited", code |-> code, cause |-> cause, sig |-> sig]
\* Ended by a signal's default action; the status a shell reports is 128 + signal.
Signaled(cause, sig) == [state |-> "signaled", code |-> 128 + sig, cause |-> cause, sig |-> sig]

alive == proc.state = "running"

\* Dispositions of a program that installs its handler at import time, before
\* main runs.
InitialHandlers_AtImport ==
    [s \in AllSignals |-> IF s \in FatalSet THEN "handler" ELSE "SIG_DFL"]

\* Dispositions at interpreter start: SIGINT has Python's default_int_handler,
\* SIGPIPE is ignored, every other signal has the system default (terminate).
InitialHandlers ==
    [s \in AllSignals |->
        CASE s = SIGINT -> "default_int_handler"
          [] s = SIGPIPE -> "SIG_IGN"
          [] OTHER -> "SIG_DFL"]

InitWith(argLists) ==
    /\ args \in argLists
    /\ continue_on_sigs = <<>>
    /\ handlers = InitialHandlers
    /\ stack = << Frame("main", 30, 0, 0, NoLine) >>
    /\ out = [f \in Range(Sinks) |-> <<>>]
    /\ buf = [f \in Range(Sinks) |-> <<>>]
    /\ clock = 0
    /\ sent = <<>>
    /\ proc = Running

Init == InitWith(ArgChoices)

ParseInit == InitWith(ArgLists(ParseTokens, MaxParseArgs))

(***************************************************************************)
(* Sinks.                                                                  *)
(***************************************************************************)
\* f.flush(): the buffered lines leave the process, in order.
FlushedOut(o, b, f) == [o EXCEPT ![f] = o[f] \o b[f]]
FlushedBuf(b, f) == [b EXCEPT ![f] = <<>>]

\* f.write(line): into the buffer, and out at once on a line-buffered sink.
WrittenOut(o, b, f, line) ==
    IF LineBuffering(f) THEN [o EXCEPT ![f] = o[f] \o b[f] \o <<line>>] ELSE o
WrittenBuf(b, f, line) ==
    IF LineBuffering(f) THEN [b EXCEPT ![f] = <<>>] ELSE [b EXCEPT ![f] = b[f] \o <<line>>]

\* Interpreter shutdown flushes every sink.
FinalOut(o, b) == [f \in Range(Sinks) |-> o[f] \o b[f]]
FinalBuf == [f \in Range(Sinks) |-> <<>>]

(***************************************************************************)
(* The stack.                                                              *)
(***************************************************************************)
Top == stack[Len(stack)]
Below == SubSeq(stack, 1, Len(stack) - 1)
\* the running frame moves to line pc
Goto(pc) == Below \o << [Top EXCEPT !.pc = pc] >>
\* the running frame calls print_msg(msg) and will resume at line ret
Call(ret, msg) == Goto(ret) \o << Frame("print_msg", 15, 1, 0, msg) >>

At(fn, pc) == alive /\ Top.fn = fn /\ Top.pc = pc

(***************************************************************************)
(* main, lines 28-44.                                                      *)
(***************************************************************************)
\* An exception nobody catches: the traceback goes to standard error, the
\* interpreter shuts down and flushes the sinks.
Uncaught(exc, how) ==
    /\ out' = FinalOut(WrittenOut(out, buf, StdErr, TracebackLine(exc)),
                       WrittenBuf(buf, StdErr, TracebackLine(exc)))
    /\ buf' = FinalBuf
    /\ proc' = how

\* lines 30-34: build the continue-on list, or die of the KeyError of line 34
Configure ==
    /\ At("main", 30)
    /\ IF ConfigRaises(args)
       THEN /\ Uncaught("KeyError", Exited(1, "KeyError", 0))
            /\ UNCHANGED <<continue_on_sigs, stack>>
       ELSE /\ continue_on_sigs' = ContinueOnSigs(args)
            /\ stack' = Goto(35)
            /\ UNCHANGED <<out, buf, proc>>
    /\ UNCHANGED <<args, handlers, clock, sent>>

\* line 35: print_msg(f"continue on sigs: {continue_on_sigs}")
AnnounceContinue ==
    /\ At("main", 35)
    /\ stack' = Below \o << [Top EXCEPT !.pc = 36, !.i = 1],
                            Frame("print_msg", 15, 1, 0, ContinueLine(continue_on_sigs)) >>
    /\ UNCHANGED <<args, continue_on_sigs, handlers, out, buf, clock, sent, proc>>

\* line 37, what signal.signal(sig, handler) leaves in the table
Installed(h, sig) == [h EXCEPT ![sig] = "handler"]

\* A registration loop that also covers the signals named on the command line.
Register_AlsoContinue ==
    /\ At("main", 36)
    /\ handlers' = [s \in AllSignals |->
                       IF s = fatal_sigs[Top.i] \/ s \in Range(continue_on_sigs)
                       THEN "handler" ELSE handlers[s]]
    /\ stack' = IF Top.i < Len(fatal_sigs)
                THEN Below \o << [Top EXCEPT !.i = Top.i + 1] >>
                ELSE Goto(39)
    /\ UNCHANGED <<args, continue_on_sigs, out, buf, clock, sent, proc>>

\* lines 36-37: one turn of the loop over fatal_sigs
Register ==
    /\ At("main", 36)
    /\ handlers' = Installed(handlers, fatal_sigs[Top.i])
    /\ stack' = IF Top.i < Len(fatal_sigs)
                THEN Below \o << [Top EXCEPT !.i = Top.i + 1] >>
                ELSE Goto(39)
    /\ UNCHANGED <<args, continue_on_sigs, out, buf, clock, sent, proc>>

\* line 39: print_msg(f"my pid is {os.getpid()}")
AnnouncePid ==
    /\ At("main", 39)
    /\ stack' = Call(41, PidLine)
    /\ UNCHANGED <<args, continue_on_sigs, handlers, out, buf, clock, sent, proc>>

\* A loop with an exit condition of its own: it returns after the first sleep.
Tick_UntilSlept ==
    /\ At("main", 41)
    /\ clock <= MaxClock
    /\ IF clock = 0
       THEN /\ stack' = Call(42, TickLine(clock))
            /\ UNCHANGED <<out, buf, proc>>
       ELSE /\ out' = FinalOut(out, buf)
            /\ buf' = FinalBuf
            /\ proc' = Exited(0, "return", 0)
            /\ UNCHANGED stack
    /\ UNCHANGED <<args, continue_on_sigs, handlers, clock, sent>>

\* lines 40-41: the loop has no condition; the model cuts it at MaxClock
Tick ==
    /\ At("main", 41)
    /\ clock <= MaxClock
    /\ stack' = Call(42, TickLine(clock))
    /\ UNCHANGED <<args, continue_on_sigs, handlers, out, buf, clock, sent, proc>>

\* line 42: sys.stderr.flush()
MainFlushStderr ==
    /\ At("main", 42)
    /\ out' = FlushedOut(out, buf, StdErr)
    /\ buf' = FlushedBuf(buf, StdErr)
    /\ stack' = Goto(43)
    /\ UNCHANGED <<args, continue_on_sigs, handlers, clock, sent, proc>>

\* line 43: signaller_log.flush()
MainFlushLog ==
    /\ At("main", 43)
    /\ out' = FlushedOut(out, buf, LogFile)
    /\ buf' = FlushedBuf(buf, LogFile)
    /\ stack' = Goto(44)
    /\ UNCHANGED <<args, continue_on_sigs, handlers, clock, sent, proc>>

\* A main loop on a thread of its own, which sleeps on while a handler runs.
Sleep_Concurrent ==
    /\ alive
    /\ stack[1].pc = 44
    /\ clock' = clock + 1
    /\ stack' = [stack EXCEPT ![1].pc = 41]
    /\ UNCHANGED <<args, continue_on_sigs, handlers, out, buf, sent, proc>>

\* line 44: time.sleep(1) runs out; the loop goes round
Sleep ==
    /\ At("main", 44)
    /\ clock' = clock + 1
    /\ stack' = Goto(41)
    /\ UNCHANGED <<args, continue_on_sigs, handlers, out, buf, sent, proc>>

(***************************************************************************)
(* print_msg, lines 13-16.  Top.i is the place in the tuple of line 14.    *)
(***************************************************************************)
\* line 15: f.write('signaller: ' + msg + "\n")
PrintWrite ==
    /\ At("print_msg", 15)
    /\ out' = WrittenOut(out, buf, Sinks[Top.i], Top.msg)
    /\ buf' = WrittenBuf(buf, Sinks[Top.i], Top.msg)
    /\ stack' = Goto(16)
    /\ UNCHANGED <<args, continue_on_sigs, handlers, clock, sent, proc>>

\* A print_msg that returns after the first sink of line 14.
PrintFlush_FirstSinkOnly ==
    /\ At("print_msg", 16)
    /\ out' = FlushedOut(out, buf, Sinks[Top.i])
    /\ buf' = FlushedBuf(buf, Sinks[Top.i])
    /\ stack' = Below
    /\ UNCHANGED <<args, continue_on_sigs, handlers, clock, sent, proc>>

\* line 16: f.flush(); then the next sink, or the return to the caller
PrintFlush ==
    /\ At("print_msg", 16)
    /\ out' = FlushedOut(out, buf, Sinks[Top.i])
    /\ buf' = FlushedBuf(buf, Sinks[Top.i])
    /\ stack' = IF Top.i < Len(Sinks)
                THEN Below \o << [Top EXCEPT !.pc = 15, !.i = Top.i + 1] >>
                ELSE Below
    /\ UNCHANGED <<args, continue_on_sigs, handlers, clock, sent, proc>>

(***************************************************************************)
(* handler, lines 18-25.  Top.signum is its argument.                      *)
(***************************************************************************)
\* A handler that records each signal it sees in the global list.
HandlerLog_Records ==
    /\ At("handler", 20)
    /\ stack' = Call(21, CalledLine(Top.signum, clock))
    /\ continue_on_sigs' = Append(continue_on_sigs, Top.signum)
    /\ UNCHANGED <<args, handlers, out, buf, clock, sent, proc>>

\* lines 19-20: print_msg(f'signal handler called with signal ...')
HandlerLog ==
    /\ At("handler", 20)
    /\ stack' = Call(21, CalledLine(Top.signum, clock))
    /\ UNCHANGED <<args, continue_on_sigs, handlers, out, buf, clock, sent, proc>>

\* line 21: sys.stderr.flush()
HandlerFlushStderr ==
    /\ At("handler", 21)
    /\ out' = FlushedOut(out, buf, StdErr)
    /\ buf' = FlushedBuf(buf, StdErr)
    /\ stack' = Goto(22)
    /\ UNCHANGED <<args, continue_on_sigs, handlers, clock, sent, proc>>

\* line 22: signaller_log.flush()
HandlerFlushLog ==
    /\ At("handler", 22)
    /\ out' = FlushedOut(out, buf, LogFile)
    /\ buf' = FlushedBuf(buf, LogFile)
    /\ stack' = Goto(23)
    /\ UNCHANGED <<args, continue_on_sigs, handlers, clock, sent, proc>>

\* A handler that continues on every signal, whatever the continue-on list holds.
ShouldExit_Never(signum, sigs) == FALSE

\* A handler that exits on every signal.
ShouldExit_Always(signum, sigs) == TRUE

\* The membership test the wrong way round.
ShouldExit_Inverted(signum, sigs) == signum \in Range(sigs)

\* line 23: signum not in continue_on_sigs
ShouldExit(signum, sigs) == signum \notin Range(sigs)

\* A handler that lets each continue-on signal pass only once.
HandlerDecide_OneShot ==
    /\ At("handler", 23)
    /\ IF ShouldExit(Top.signum, continue_on_sigs)
       THEN /\ stack' = Goto(24)
            /\ UNCHANGED continue_on_sigs
       ELSE /\ stack' = Below
            /\ continue_on_sigs' =
                   SelectSeq(continue_on_sigs, LAMBDA x : x # Top.signum)
    /\ UNCHANGED <<args, handlers, out, buf, clock, sent, proc>>

\* A handler whose return unwinds to the main loop, abandoning the call it
\* interrupted.
HandlerDecide_Unwinds ==
    /\ At("handler", 23)
    /\ stack' = IF ShouldExit(Top.signum, continue_on_sigs)
                THEN Goto(24)
                ELSE << stack[1] >>
    /\ UNCHANGED <<args, continue_on_sigs, handlers, out, buf, clock, sent, proc>>

\* line 23: the test; a continue-on signal falls off the end and returns
HandlerDecide ==
    /\ At("handler", 23)
    /\ stack' = IF ShouldExit(Top.signum, continue_on_sigs) THEN Goto(24) ELSE Below
    /\ UNCHANGED <<args, continue_on_sigs, handlers, out, buf, clock, sent, proc>>

\* A handler that exits without its farewell line.
HandlerLogExit_Silent ==
    /\ At("handler", 24)
    /\ stack' = Goto(25)
    /\ UNCHANGED <<args, continue_on_sigs, handlers, out, buf, clock, sent, proc>>

\* line 24: print_msg(f'exiting on {signal.Signals(signum).name}')
HandlerLogExit ==
    /\ At("handler", 24)
    /\ stack' = Call(25, ExitingLine(Top.signum))
    /\ UNCHANGED <<args, continue_on_sigs, handlers, out, buf, clock, sent, proc>>

\* line 25, the status sys.exit is given
ExitStatus == 1

\* line 25: sys.exit(1).  SystemExit unwinds every frame (nothing catches
\* it) and the interpreter shuts down, flushing the sinks.
HandlerExit ==
    /\ At("handler", 25)
    /\ proc' = Exited(ExitStatus, "SystemExit", Top.signum)
    /\ out' = FinalOut(out, buf)
    /\ buf' = FinalBuf
    /\ UNCHANGED <<args, continue_on_sigs, handlers, stack, clock, sent>>

(***************************************************************************)
(* The environment delivers signal s.                                      *)
(***************************************************************************)
Deliver(s) ==
    /\ alive
    /\ Len(sent) < MaxSignals
    /\ sent' = Append(sent, [sig |-> s, disp |-> handlers[s]])
    /\ CASE handlers[s] = "handler" ->
              \* the handler runs before the interrupted frame's next statement
              /\ stack' = Append(stack, Frame("handler", 20, 0, s, NoLine))
              /\ UNCHANGED <<out, buf, proc>>
         [] handlers[s] = "SIG_IGN" ->
              UNCHANGED <<stack, out, buf, proc>>
         [] handlers[s] = "SIG_DFL" ->
              \* killed on the spot: what is still buffered is lost
              /\ proc' = Signaled("killed", s)
              /\ UNCHANGED <<stack, out, buf>>
         [] handlers[s] = "default_int_handler" ->
              \* KeyboardInterrupt, uncaught: the interpreter shuts down and
              \* ends by SIGINT (Python 3.8 on) or with status 1 (before)
              /\ \E how \in {Signaled("KeyboardInterrupt", s),
                             Exited(1, "KeyboardInterrupt", s)} :
                    Uncaught("KeyboardInterrupt", how)
              /\ UNCHANGED stack
    /\ UNCHANGED <<args, continue_on_sigs, handlers, clock>>

Signal == \E s \in AllSignals : Deliver(s)

\* One step of the interpreter: the frame on top executes its next line.
Step ==
    \/ Configure
    \/ AnnounceContinue
    \/ Register
    \/ AnnouncePid
    \/ Tick
    \/ MainFlushStderr
    \/ MainFlushLog
    \/ Sleep
    \/ PrintWrite
    \/ PrintFlush
    \/ HandlerLog
    \/ HandlerFlushStderr
    \/ HandlerFlushLog
    \/ HandlerDecide
    \/ HandlerLogExit
    \/ HandlerExit

Next == Step \/ Signal

Spec == Init /\ [][Next]_vars

\* The environment of the liveness claims: one signal, any of the seven, or
\* up to MaxSignals signals among SIGINT (installed first), SIGTERM (installed
\* later) and SIGUSR1 (never installed).
LiveSignals == {SIGINT, SIGTERM, SIGUSR1}

LiveSignal ==
    \E s \in AllSignals :
        /\ sent = <<>> \/ {sent[k].sig : k \in DOMAIN sent} \cup {s} \subseteq LiveSignals
        /\ Deliver(s)

\* The interpreter keeps running the frame on top while the process lives.
LiveSpec == Init /\ [][Step \/ LiveSignal]_vars /\ WF_vars(Step)

\* The configuration step alone, over more argument lists.
ParseSpec == ParseInit /\ [][Configure]_vars

(***************************************************************************)
(* Vocabulary of the claims.                                               *)
(***************************************************************************)
\* The continue-on set the arguments configure (none when line 34 raises).
ContinueSet == IF ConfigRaises(args) THEN {} ELSE Range(ContinueOnSigs(args))

\* Signal s has been delivered to the process.
Delivered(s) == \E k \in DOMAIN sent : sent[k].sig = s

\* An invocation of the handler for s is on the stack: s was delivered while
\* the handler was installed for it, and that invocation has not returned.
HandlerActive(s) ==
    \E k \in DOMAIN stack : stack[k].fn = "handler" /\ stack[k].signum = s

\* The process was ended by a signal that met no installed handler.
EndedUnhandled ==
    /\ ~alive
    /\ proc.cause \in {"killed", "KeyboardInterrupt"}
    /\ sent # <<>>
    /\ sent[Len(sent)].sig = proc.sig
    /\ sent[Len(sent)].disp # "handler"

\* The process was ended by the handler's sys.exit on signal s.
ExitedOn(s) == ~alive /\ proc.cause = "SystemExit" /\ proc.sig = s

IsKind(line, kind) == line.kind = kind
\* how many lines of a kind a sequence of lines holds
RECURSIVE Count(_, _)
Count(lines, kind) ==
    IF lines = <<>> THEN 0
    ELSE (IF IsKind(Head(lines), kind) THEN 1 ELSE 0) + Count(Tail(lines), kind)

Ticks(f) == Count(out[f], "tick")

(***************************************************************************)
(* C1 (as amended).  For each of the six fatal-by-default signals outside  *)
(* the continue-on set: once the signal is delivered while the handler is  *)
(* installed for it, the process eventually terminates, and its exit       *)
(* status is 1 unless a signal that meets no installed handler ends the    *)
(* process first.                                                          *)
(***************************************************************************)
C1_FatalSignalTerminates ==
    \A s \in FatalSet :
        (alive /\ HandlerActive(s) /\ s \notin Range(continue_on_sigs))
            ~> (~alive /\ (proc.code = 1 \/ EndedUnhandled))

\* C1's case: the handler has ended the process on a signal outside the set.
C1_Witness ==
    \E s \in FatalSet :
        ExitedOn(s) /\ s \notin Range(continue_on_sigs) /\ proc.code = 1

\* C1 as stated: whenever one of the six outside the continue-on set has been
\* delivered and the process has ended, the exit status is 1.
C1_Original ==
    \A s \in FatalSet \ ContinueSet :
        (~ConfigRaises(args) /\ Delivered(s) /\ ~alive) => proc.code = 1

(***************************************************************************)
(* C2 (as amended).  A signal of the continue-on set that is delivered     *)
(* while the handler is installed for it never terminates the process: the *)
(* handler never exits on a signal of the configured set, and a process    *)
(* that a signal of the set did end was ended by a delivery that met no    *)
(* installed handler.                                                      *)
(***************************************************************************)
C2_ContinueSignalHarmless ==
    /\ \A s \in Range(continue_on_sigs) : ~ExitedOn(s)
    /\ (~alive /\ proc.sig \in Range(continue_on_sigs)) => EndedUnhandled
    /\ \A k \in DOMAIN stack :
          (stack[k].fn = "handler" /\ stack[k].signum \in Range(continue_on_sigs))
              => stack[k].pc \in {20, 21, 22, 23}

\* C2's case: the handler has run for a continue-on signal and has returned,
\* and the process is alive, back in main.
C2_Witness ==
    /\ alive
    /\ Len(stack) = 1
    /\ \E k \in DOMAIN out[LogFile] :
          /\ IsKind(out[LogFile][k], "signal handler called with signal")
          /\ out[LogFile][k].sig \in Range(continue_on_sigs)

\* C2 as stated: no signal of the continue-on set, whatever names were given,
\* ever ends the process.
C2_Original == ~alive => proc.sig \notin ContinueSet

(***************************************************************************)
(* C3 (as amended).  After the handler has handled a continue-on signal,   *)
(* under fair scheduling the main loop goes on and writes its heartbeats   *)
(* to both sinks, as long as no signal is delivered that is outside the    *)
(* continue-on set or that meets no installed handler.  In the model the   *)
(* loop is cut after MaxClock sleeps: "goes on" is "every heartbeat up to  *)
(* the cut reaches both sinks".                                            *)
(***************************************************************************)
\* the handler is about to return from a continue-on signal
ReturningContinue ==
    At("handler", 23) /\ Top.signum \in Range(continue_on_sigs)

\* the process was ended by a signal outside the set, or by an unhandled one
Stopped ==
    \/ EndedUnhandled
    \/ \E s \in AllSignals : ExitedOn(s) /\ s \notin Range(continue_on_sigs)

\* the loop has run to the cut and every heartbeat is in both sinks
AllTicks ==
    /\ alive
    /\ clock > MaxClock
    /\ Ticks(StdErr) = MaxClock + 1
    /\ Ticks(LogFile) = MaxClock + 1

C3_HeartbeatsResume == ReturningContinue ~> (AllTicks \/ Stopped)

\* C3's case: a continue-on signal was handled, and a heartbeat followed it.
C3_Witness ==
    /\ AllTicks
    /\ \E j, k \in DOMAIN out[LogFile] :
          /\ j < k
          /\ IsKind(out[LogFile][j], "signal handler called with signal")
          /\ out[LogFile][j].sig \in Range(continue_on_sigs)
          /\ IsKind(out[LogFile][k], "tick")

\* C3 as stated, in what it says of a finite run: a process in which the
\* handler has run for a signal and has returned, and to which no signal
\* outside the continue-on set was delivered, is alive (to keep emitting
\* heartbeats).
C3_Original ==
    ( /\ \E k \in DOMAIN out[LogFile] :
            IsKind(out[LogFile][k], "signal handler called with signal")
      /\ \A k \in DOMAIN stack : stack[k].fn # "handler"
      /\ \A k \in DOMAIN sent : sent[k].sig \in ContinueSet )
        => alive

(***************************************************************************)
(* C4 (as amended).  Invoked with no signal-name arguments, the process    *)
(* configures the continue-on set as exactly {SIGINT}; SIGINT delivered    *)
(* once its handler is installed does not terminate the process; SIGTERM   *)
(* delivered once its handler is installed eventually terminates it, with  *)
(* exit status 1 unless a signal that meets no installed handler ends the  *)
(* process first.                                                          *)
(***************************************************************************)
Configured == stack[1].pc # 30

C4_DefaultIsSigint ==
    /\ [](args = <<>> /\ Configured => Range(continue_on_sigs) = {SIGINT})
    /\ []((args = <<>> /\ ~alive /\ proc.sig = SIGINT) => EndedUnhandled)
    /\ (args = <<>> /\ HandlerActive(SIGTERM))
           ~> (~alive /\ (proc.code = 1 \/ EndedUnhandled))

\* C4's case: no arguments, SIGINT was handled and the process lived on, then
\* the handler ended it on SIGTERM with status 1.
C4_Witness ==
    /\ args = <<>>
    /\ ExitedOn(SIGTERM)
    /\ proc.code = 1
    /\ \E k \in DOMAIN out[LogFile] :
          out[LogFile][k] = CalledLine(SIGINT, out[LogFile][k].t)

\* C4 as stated: with no arguments SIGINT never ends the process, and a
\* process that SIGTERM was delivered to ends with status 1.
C4_Original ==
    args = <<>> =>
        /\ ~alive => proc.sig # SIGINT
        /\ (Delivered(SIGTERM) /\ ~alive) => proc.code = 1

(***************************************************************************)
(* C5.  In every reachable state every line in the log file is also on     *)
(* standard error, as often at least: the multiset of the log file's lines *)
(* is contained in the multiset of standard error's lines.                 *)
(***************************************************************************)
Occurrences(lines, x) == Cardinality({k \in DOMAIN lines : lines[k] = x})

C5_LogWithinStderr ==
    \A x \in Range(out[LogFile]) :
        Occurrences(out[LogFile], x) <= Occurrences(out[StdErr], x)

\* C5's case: a handler has preempted a print_msg call of the main flow
\* between its two sinks, has logged to both sinks itself, and the handler's
\* line is in the log file while the preempted line is not.
C5_Witness ==
    \E k \in DOMAIN stack :
        /\ stack[k].fn = "print_msg"
        /\ stack[k].i = 2
        /\ stack[k].pc = 15
        /\ k < Len(stack)
        /\ stack[k + 1].fn = "handler"
        /\ stack[k + 1].pc > 20
        /\ CalledLine(stack[k + 1].signum, clock) \in Range(out[LogFile])
        /\ stack[k].msg \in Range(out[StdErr])
        /\ stack[k].msg \notin Range(out[LogFile])

(***************************************************************************)
(* C6.  Both sinks receive the same lines in the same order: in every      *)
(* reachable state one of the two sequences of lines, the log file's and   *)
(* standard error's, is a prefix of the other.                             *)
(***************************************************************************)
IsPrefix(a, b) == Len(a) <= Len(b) /\ SubSeq(b, 1, Len(a)) = a

C6_SameOrder ==
    IsPrefix(out[LogFile], out[StdErr]) \/ IsPrefix(out[StdErr], out[LogFile])

(***************************************************************************)
(* C7.  In each sink no heartbeat line and no signal-handling line comes   *)
(* before the pid announcement, and the pid announcement is the second     *)
(* line, right after the continue-on-set announcement.                     *)
(***************************************************************************)
IsRuntimeLine(line) ==
    line.kind \in {"tick", "signal handler called with signal", "exiting on"}

C7_StartupOrder ==
    \A f \in Range(Sinks) :
        \A k \in DOMAIN out[f] :
            IsRuntimeLine(out[f][k]) =>
                /\ k > 2
                /\ IsKind(out[f][1], "continue on sigs")
                /\ out[f][2] = PidLine

(***************************************************************************)
(* C8.  For an argument list of valid signal names, in any letter case,    *)
(* and of empty strings, with at least one non-empty token, the configured *)
(* continue-on set holds exactly the signals that the non-empty tokens     *)
(* name when letter case is ignored; empty tokens raise no error.          *)
(***************************************************************************)
EqualsIgnoreCase(a, b) ==
    /\ Len(a) = Len(b)
    /\ \A k \in DOMAIN a : UpperChar(a[k]) = UpperChar(b[k])

IsValidName(tok) == \E name \in SignalNames : EqualsIgnoreCase(tok, name)

\* the signals the non-empty tokens of a name, letter case ignored
NamedSignals(a) ==
    { Signals(name) : name \in
        { n \in SignalNames :
            \E k \in DOMAIN a : a[k] # EmptyStr /\ EqualsIgnoreCase(a[k], n) } }

ValidArgs(a) ==
    /\ \A k \in DOMAIN a : a[k] = EmptyStr \/ IsValidName(a[k])
    /\ \E k \in DOMAIN a : a[k] # EmptyStr

C8_ParsedSetIsNamedSet ==
    (ValidArgs(args) /\ (Configured \/ ~alive)) =>
        /\ alive
        /\ Range(continue_on_sigs) = NamedSignals(args)

\* C8's case: ["sigint", "SIGTERM", ""] has been configured as {SIGINT, SIGTERM}.
C8_Witness ==
    /\ args = << <<"s","i","g","i","n","t">>, <<"S","I","G","T","E","R","M">>, EmptyStr >>
    /\ Configured
    /\ Range(continue_on_sigs) = {SIGINT, SIGTERM}

(***************************************************************************)
(* C9.  If no token remains once the empty strings are filtered out, also  *)
(* when arguments were given and all of them are empty, the configured     *)
(* continue-on set is {SIGINT}.                                            *)
(***************************************************************************)
C9_EmptyDefaultsToSigint ==
    (Configured /\ \A k \in DOMAIN args : args[k] = EmptyStr)
        => Range(continue_on_sigs) = {SIGINT}

(***************************************************************************)
(* C10.  If a non-empty argument token is no known signal name, the        *)
(* process terminates abnormally during configuration: the main flow never *)
(* leaves the configuration step, no sink ever receives the continue-on    *)
(* announcement or a heartbeat, the log file stays empty, and no handler   *)
(* is ever installed.                                                      *)
(***************************************************************************)
HasUnknownName(a) == \E k \in DOMAIN a : a[k] # EmptyStr /\ ~IsValidName(a[k])

C10_UnknownNameAborts ==
    /\ [](HasUnknownName(args) =>
            /\ ~Configured
            /\ Len(stack) = 1
            /\ continue_on_sigs = <<>>
            /\ handlers = InitialHandlers
            /\ out[LogFile] = <<>>
            /\ \A k \in DOMAIN out[StdErr] :
                  ~IsRuntimeLine(out[StdErr][k])
                  /\ ~IsKind(out[StdErr][k], "continue on sigs"))
    /\ HasUnknownName(args) ~> (~alive /\ proc.code # 0)

\* C10's case: a list with a valid name first and an unknown one last has
\* ended the process with the KeyError of line 34.
C10_Witness ==
    /\ HasUnknownName(args)
    /\ Len(args) = 3
    /\ IsValidName(args[1])
    /\ ~alive
    /\ proc = Exited(1, "KeyError", 0)
    /\ out[StdErr] = << TracebackLine("KeyError") >>

(***************************************************************************)
(* C11.  Whenever the process exits through the handler on signal S, both  *)
(* sinks hold, written and flushed before the exit, the 'signal handler    *)
(* called with signal S' line and later the 'exiting on S' line; and every *)
(* handler invocation, whether or not it exits, has its 'signal handler    *)
(* called' line in both sinks before it takes the continue-or-exit         *)
(* decision.                                                               *)
(***************************************************************************)
\* sink f holds the called line of S, and after it the exiting line of S
HoldsFarewell(f, S) ==
    \E j, k \in DOMAIN out[f] :
        /\ j < k
        /\ out[f][j] = CalledLine(S, clock)
        /\ out[f][k] = ExitingLine(S)

\* the handler invocation in frame k is past its first print_msg call
PastCalledLine(k) ==
    /\ stack[k].fn = "handler"
    /\ stack[k].pc > 20
    /\ \/ k = Len(stack)
       \/ stack[k + 1].fn # "print_msg"
       \/ stack[k].pc = 25

C11_LoggedBeforeExit ==
    /\ \A S \in AllSignals :
          (ExitedOn(S) \/ (At("handler", 25) /\ Top.signum = S))
              => \A f \in Range(Sinks) : HoldsFarewell(f, S)
    /\ \A k \in DOMAIN stack :
          PastCalledLine(k)
              => \A f \in Range(Sinks) :
                    CalledLine(stack[k].signum, clock) \in Range(out[f])

\* C11's case: the handler has ended the process on a signal, with another
\* handler invocation (of a continue-on signal) logged in between.
C11_Witness ==
    \E S \in AllSignals :
        /\ ExitedOn(S)
        /\ \A f \in Range(Sinks) : HoldsFarewell(f, S)
        /\ Len(sent) = 2

(***************************************************************************)
(* C12.  The set of signals for which the handler is installed is always a *)
(* subset of the six fatal-by-default signals, whatever the arguments; a   *)
(* SIGUSR1 in the continue-on set never gets the handler; and once the     *)
(* registration loop has finished the installed set is exactly the six.    *)
(***************************************************************************)
\* the signals whose disposition is the program's handler
InstalledSet == {s \in AllSignals : handlers[s] = "handler"}

\* the main flow has left the loop of lines 36-37
RegistrationDone == stack[1].pc > 37

C12_InstalledAreTheSix ==
    /\ InstalledSet \subseteq FatalSet
    /\ handlers[SIGUSR1] # "handler"
    /\ RegistrationDone => InstalledSet = FatalSet

\* C12's case: SIGUSR1 was named on the command line, registration is over
\* and SIGUSR1 has been delivered.
C12_Witness ==
    /\ SIGUSR1 \in Range(continue_on_sigs)
    /\ RegistrationDone
    /\ InstalledSet = FatalSet
    /\ Delivered(SIGUSR1)

(***************************************************************************)
(* C13.  A handler invocation for a continue-on signal changes nothing but *)
(* the two log sinks: delivery leaves the interrupted frames as they are,  *)
(* every step of the invocation leaves the frames below it, the            *)
(* continue-on set, the dispositions, the clock and the process status     *)
(* unchanged, and its return uncovers the interrupted frames exactly as    *)
(* they were at delivery, so that the main flow resumes from that point.   *)
(***************************************************************************)
\* frame k is a handler invocation for a continue-on signal and the running
\* code belongs to it (only its own print_msg calls are above it)
OwnFrame(k) ==
    /\ stack[k].fn = "handler"
    /\ stack[k].signum \in Range(continue_on_sigs)
    /\ \A j \in (k + 1)..Len(stack) : stack[j].fn = "print_msg"

\* the frames below frame k
Interrupted(st, k) == SubSeq(st, 1, k - 1)

C13_ContinueHandlerFrame ==
    [][ /\ \A k \in DOMAIN stack :
              (alive /\ OwnFrame(k) /\ sent' = sent) =>
                  /\ UNCHANGED <<args, continue_on_sigs, handlers, clock, proc>>
                  /\ Len(stack') >= k - 1
                  /\ Interrupted(stack', k) = Interrupted(stack, k)
                  /\ Len(stack') >= k =>
                        /\ stack'[k].fn = "handler"
                        /\ stack'[k].signum = stack[k].signum
        /\ (sent' # sent /\ sent'[Len(sent')].disp = "handler") =>
              /\ Interrupted(stack', Len(stack) + 1) = stack
              /\ UNCHANGED <<args, continue_on_sigs, handlers, clock, proc, out, buf>>
      ]_vars

\* C13's case: the handler ran for a continue-on signal that interrupted the
\* main loop after its tick line, it has returned, and the main flow is at the
\* sleep of line 44.
C13_Witness ==
    /\ At("main", 44)
    /\ Len(sent) = 1
    /\ sent[1].disp = "handler"
    /\ sent[1].sig \in Range(continue_on_sigs)
    /\ out[LogFile] # <<>>
    /\ out[LogFile][Len(out[LogFile])] = CalledLine(sent[1].sig, clock)

(***************************************************************************)
(* C14.  While a handler invocation is active the main flow takes no step: *)
(* the frames it interrupted stay as they are, the clock of the main loop  *)
(* does not advance and no disposition changes; the invocation is left     *)
(* only by its return at line 23 or by the exit of the process, and only   *)
(* then does the interrupted sleep or log write resume; and a step that    *)
(* writes or flushes a sink during the invocation is a step of the handler *)
(* or of a print_msg call above it, never of the main loop.                *)
(***************************************************************************)
C14_HandlerRunsAlone ==
    [][ \A k \in DOMAIN stack :
            stack[k].fn = "handler" =>
                /\ Interrupted(stack', k) = Interrupted(stack, k)
                /\ UNCHANGED <<clock, handlers, continue_on_sigs>>
                /\ Len(stack') < k =>
                      /\ alive'
                      /\ k = Len(stack)
                      /\ stack[k].pc = 23
                      /\ stack' = Interrupted(stack, k)
                /\ (out' # out \/ buf' # buf) =>
                      /\ Top.fn \in {"handler", "print_msg"}
                      /\ stack'[1] = stack[1]
      ]_vars

\* C14's case: the handler interrupted a print_msg call of the main flow
\* between its write and its flush on a sink, and is itself between the write
\* and the flush of its own line on the same sink.
C14_Witness ==
    /\ alive
    /\ Len(stack) = 4
    /\ stack[1].fn = "main"
    /\ stack[2].fn = "print_msg" /\ stack[2].pc = 16
    /\ stack[3].fn = "handler"
    /\ stack[4].fn = "print_msg" /\ stack[4].pc = 16
    /\ stack[2].i = stack[4].i

(***************************************************************************)
(* C15.  Once the heartbeat loop has been entered the process never        *)
(* terminates on its own: the main flow never leaves lines 40-44, with no  *)
(* signal delivered the process is alive, and a process that has           *)
(* terminated there was ended either by the handler's exit on a delivered  *)
(* signal outside the continue-on set or by a signal that met no installed *)
(* handler.                                                                *)
(***************************************************************************)
\* the main flow is inside the loop of lines 40-44
InLoop == stack[1].pc \in 40..44

C15_LoopEndsBySignalOnly ==
    /\ [](InLoop =>
            /\ sent = <<>> => alive
            /\ ~alive =>
                  \/ \E s \in AllSignals \ Range(continue_on_sigs) :
                        ExitedOn(s) /\ Delivered(s)
                  \/ EndedUnhandled)
    /\ [][InLoop => InLoop']_vars

\* C15's case: in the loop, after a sleep, a continue-on signal was handled
\* and then a signal without an installed handler ended the process.
C15_Witness ==
    /\ InLoop
    /\ clock > 0
    /\ Len(sent) = 2
    /\ sent[1].disp = "handler"
    /\ sent[1].sig \in Range(continue_on_sigs)
    /\ EndedUnhandled

(***************************************************************************)
(* C16.  Each iteration of the heartbeat loop writes exactly one tick line *)
(* to standard error and exactly one to the log file, flushing each,       *)
(* before it sleeps: when the main flow stands at the top of the loop each *)
(* sink holds one tick line per sleep so far, and when it stands at the    *)
(* sleep each sink holds, flushed, one more, the tick of this iteration.   *)
(***************************************************************************)
C16_OneTickPerIteration ==
    /\ stack[1].pc = 41 =>
          \A f \in Range(Sinks) : Ticks(f) = clock
    /\ stack[1].pc = 44 =>
          \A f \in Range(Sinks) :
              /\ Ticks(f) = clock + 1
              /\ Occurrences(out[f], TickLine(clock)) = 1

\* C16's case: the second iteration has written its tick and stands at the
\* sleep, with a handled signal in between.
C16_Witness ==
    /\ At("main", 44)
    /\ clock = 1
    /\ sent # <<>>
    /\ sent[1].disp = "handler"
    /\ \A f \in Range(Sinks) : Ticks(f) = 2

(***************************************************************************)
(* C17.  The continue-on set is assigned exactly once, by the              *)
(* configuration step: until then it is the empty list of line 11, and     *)
(* from then on no step of the registration, of the loop or of the handler *)
(* changes it.  The sequence of fatal signals is never changed: the        *)
(* handler is only ever installed for members of it, in its order.         *)
(***************************************************************************)
C17_ContinueSetAssignedOnce ==
    /\ [](~Configured => continue_on_sigs = <<>>)
    /\ [][ /\ Configured => (Configured' /\ continue_on_sigs' = continue_on_sigs)
           /\ continue_on_sigs' # continue_on_sigs => At("main", 30)
           /\ handlers' # handlers =>
                 /\ At("main", 36)
                 /\ handlers' = Installed(handlers, fatal_sigs[Top.i])
           /\ args' = args
         ]_vars

\* C17's case: configured with two names, the registration is over, the
\* handler has run for both signals and the loop has gone round.
C17_Witness ==
    /\ At("main", 44)
    /\ clock = 1
    /\ continue_on_sigs = <<SIGINT, SIGTERM>>
    /\ Len(sent) = 2
    /\ \A k \in DOMAIN sent : sent[k].disp = "handler"

(***************************************************************************)
(* C18.  The configuration step produces a set: when the same signal is    *)
(* named by several argument tokens, in the same or in different letter    *)
(* case, the continue-on collection that line 34 builds and line 35        *)
(* announces holds that signal exactly once.                               *)
(***************************************************************************)
C18_DuplicatesCollapse ==
    Configured =>
        \A s \in NamedSignals(args) : Occurrences(continue_on_sigs, s) = 1

(***************************************************************************)
(* C19.  The handler never takes its decision against the initial empty    *)
(* continue-on collection: in every state in which the handler is          *)
(* installed for at least one signal, or an invocation of it is on the     *)
(* stack, the configuration step is over and the continue-on collection    *)
(* holds the value configured from the arguments.                          *)
(***************************************************************************)
C19_ConfiguredBeforeInstalled ==
    (InstalledSet # {} \/ \E k \in DOMAIN stack : stack[k].fn = "handler") =>
        /\ Configured
        /\ continue_on_sigs = ContinueOnSigs(args)

\* C19's case: the handler stands at its decision while the registration
\* loop is still under way, and the collection is the configured one.
C19_Witness ==
    /\ At("handler", 23)
    /\ stack[1].pc = 36
    /\ InstalledSet # FatalSet
    /\ continue_on_sigs = <<SIGINT, SIGTERM>>

(***************************************************************************)
(* C20.  In every state in which the process is alive and no print_msg     *)
(* call is in progress (only the main frame is on the stack, no handler is *)
(* active), standard error and the log file hold the same multiset of      *)
(* lines.  While the process is alive, and after the handler's exit, the   *)
(* log file never holds more copies of a line than standard error, and     *)
(* standard error is ahead only by lines of print_msg calls that are on    *)
(* the stack, preempted or cut short between their two sinks.              *)
(***************************************************************************)
\* no print_msg call is in progress and no handler is active
Quiescent == alive /\ Len(stack) = 1

\* the print_msg calls on the stack that have written line x on standard
\* error and have not completed it on the log file
InFlight(x) ==
    Cardinality({k \in DOMAIN stack :
        /\ stack[k].fn = "print_msg"
        /\ stack[k].msg = x
        /\ (stack[k].i = 1 /\ stack[k].pc = 16) \/ stack[k].i = 2})

C20_SinksAgree ==
    /\ Quiescent =>
          \A x \in Range(out[StdErr]) \cup Range(out[LogFile]) :
              Occurrences(out[StdErr], x) = Occurrences(out[LogFile], x)
    /\ (alive \/ \E s \in AllSignals : ExitedOn(s)) =>
          \A x \in Range(out[StdErr]) \cup Range(out[LogFile]) :
              /\ Occurrences(out[LogFile], x) <= Occurrences(out[StdErr], x)
              /\ Occurrences(out[StdErr], x) - Occurrences(out[LogFile], x)
                    <= InFlight(x)

\* C20's case: two handler invocations have come and gone, one of them
\* between the two sinks of a print_msg call, so that the sinks hold the same
\* lines in different orders.
C20_Witness ==
    /\ Quiescent
    /\ Len(sent) = 2
    /\ \A k \in DOMAIN sent : sent[k].disp = "handler"
    /\ out[StdErr] # out[LogFile]
    /\ \A x \in Range(out[StdErr]) \cup Range(out[LogFile]) :
          Occurrences(out[StdErr], x) = Occurrences(out[LogFile], x)

====
